---- MODULE Spec2Model ----
(***************************************************************************)
(* A model of the strompris client library: the request builder and        *)
(* validator of get_prices (async, src/src/lib.rs, and blocking,           *)
(* src/src/blocking/strompris.rs), the local-time deserializer             *)
(* (src/src/local_time_deserializer.rs) and the ordering of HourlyPrice    *)
(* (src/src/models/hourly_price.rs).                                       *)
(*                                                                         *)
(* Text is a sequence of one-character strings, so that find, get,         *)
(* parse and format! are computed character by character.                  *)
(***************************************************************************)
EXTENDS Integers, Sequences, FiniteSets, TLC

VARIABLES
    date,          \* the date argument of the get_prices call in progress
    price_region,  \* the price_region argument of that call
    server,        \* what the transport will answer to the GET of this call
    pc,            \* per mode: "ready", "awaiting" (request in flight), "done"
    sent,          \* per mode: the requests handed to the transport, in order
    decoded,       \* per mode: TRUE once the response body was given to json()
    result,        \* per mode: what get_prices returned (or that it panicked)
    input,         \* the string handed to local_time_deserializer::deserialize
    output,        \* what deserialize made of it
    built,         \* endpoints built so far, each with the arguments it is for
    operands,      \* three HourlyPrice values to be compared
    cmp            \* the pairwise partial_cmp results of the operands

vars == <<date, price_region, server, pc, sent, decoded, result,
          input, output, built, operands, cmp>>

(***************************************************************************)
(* Bounds                                                                  *)
(***************************************************************************)
\* longest response array the stub server answers with
MaxBody == 2
\* number of endpoints kept side by side when paths are compared
MaxBuilt == 2

(***************************************************************************)
(* Text                                                                    *)
(***************************************************************************)
Digits == <<"0", "1", "2", "3", "4", "5", "6", "7", "8", "9">>

IsDigit(ch) == \E i \in 1..10 : Digits[i] = ch

DigitVal(ch) == (CHOOSE i \in 1..10 : Digits[i] = ch) - 1

\* Display of an unsigned integer: decimal digits, no padding
RECURSIVE FmtNat(_)
FmtNat(n) == IF n < 10 THEN <<Digits[n + 1]>>
             ELSE FmtNat(n \div 10) \o <<Digits[(n % 10) + 1]>>

\* format!("{}", i32)
FmtDisplay(n) == IF n < 0 THEN <<"-">> \o FmtNat(-n) ELSE FmtNat(n)

\* format!("{:02}", u32): zero-padded to a minimum width of two
FmtPad2(n) == IF n < 10 THEN <<"0">> \o FmtNat(n) ELSE FmtNat(n)

\* the value of a non-empty run of decimal digits
RECURSIVE NatOf(_)
NatOf(ds) == IF Len(ds) = 0 THEN 0
             ELSE 10 * NatOf(SubSeq(ds, 1, Len(ds) - 1)) + DigitVal(ds[Len(ds)])

(***************************************************************************)
(* Calendar dates (chrono::NaiveDate, models::Date)                        *)
(***************************************************************************)
IsLeap(y) == (y % 4 = 0 /\ y % 100 # 0) \/ y % 400 = 0

DaysInMonth(y, m) == IF m = 2 THEN (IF IsLeap(y) THEN 29 ELSE 28)
                     ELSE IF m \in {4, 6, 9, 11} THEN 30 ELSE 31

\* NaiveDate::from_ymd_opt: Some exactly for a real calendar date
from_ymd_opt(y, m, d) ==
    IF m \in 1..12 /\ d >= 1 /\ d <= DaysInMonth(y, m)
    THEN [some |-> TRUE, year |-> y, month |-> m, day |-> d]
    ELSE [some |-> FALSE]

\* the derived ordering of NaiveDate: year, then month, then day
DateGe(x, y) ==
    \/ x.year > y.year
    \/ x.year = y.year /\ x.month > y.month
    \/ x.year = y.year /\ x.month = y.month /\ x.day >= y.day

MIN_DATE == from_ymd_opt(2021, 12, 1)

Ymd(y, m, d) == [year |-> y, month |-> m, day |-> d]

PriceRegion == {"NO1", "NO2", "NO3", "NO4", "NO5"}

(***************************************************************************)
(* Errors (error.rs) and the outcome of a call                             *)
(***************************************************************************)
Generic(msg) == [kind |-> "Err", error |-> "Generic", msg |-> msg]

\* reqwest::Error wrapped by Error::ReqwestError; what says which reqwest error
ReqwestError(what) == [kind |-> "Err", error |-> "ReqwestError", msg |-> what]

Ok(v) == [kind |-> "Ok", value |-> v]

\* an unwrap() on None or Err: the call unwinds and returns nothing
Panic == [kind |-> "Panic"]

DateTooEarly == Generic("Date is before the minimum acceptable date")

PricesUnavailable == Generic("Prices are not available for this date")

(***************************************************************************)
(* chrono: NaiveDateTime, FixedOffset, DateTime<FixedOffset>               *)
(***************************************************************************)
NaiveDateTime(y, mo, d, h, mi, sec) ==
    [year |-> y, month |-> mo, day |-> d, hour |-> h, minute |-> mi, second |-> sec]

PrevDay(dt) ==
    IF dt.day > 1 THEN [dt EXCEPT !.day = @ - 1]
    ELSE IF dt.month > 1
         THEN [dt EXCEPT !.month = @ - 1, !.day = DaysInMonth(dt.year, dt.month - 1)]
         ELSE [dt EXCEPT !.year = @ - 1, !.month = 12, !.day = 31]

NextDay(dt) ==
    IF dt.day < DaysInMonth(dt.year, dt.month) THEN [dt EXCEPT !.day = @ + 1]
    ELSE IF dt.month < 12
         THEN [dt EXCEPT !.month = @ + 1, !.day = 1]
         ELSE [dt EXCEPT !.year = @ + 1, !.month = 1, !.day = 1]

\* NaiveDateTime + Duration::hours(k), for -24 < k < 24
AddHours(dt, k) ==
    LET h == dt.hour + k
    IN  IF h < 0 THEN [PrevDay(dt) EXCEPT !.hour = h + 24]
        ELSE IF h > 23 THEN [NextDay(dt) EXCEPT !.hour = h - 24]
        ELSE [dt EXCEPT !.hour = h]

\* FixedOffset::east_opt(secs): None outside (-86400, 86400)
east_opt(secs) == IF secs > -86400 /\ secs < 86400
                  THEN [some |-> TRUE, local_minus_utc |-> secs]
                  ELSE [some |-> FALSE]

\* DateTime::<FixedOffset>::from_naive_utc_and_offset: dt is taken as the UTC time
from_naive_utc_and_offset(dt, tz) == [utc |-> dt, offset |-> tz.local_minus_utc]

\* DateTime - Duration::hours(k): the instant moves, the offset stays
SubHours(t, k) == [t EXCEPT !.utc = AddHours(@, -k)]

(***************************************************************************)
(* chrono's format scanner, for FORMAT = "%Y-%m-%dT%H:%M:%S%z"             *)
(* (format::parse and format::scan).  A scan state has the position of     *)
(* the next unread character, the numbers read so far and the first error. *)
(***************************************************************************)
RECURSIVE CountDigits(_, _, _)
CountDigits(s, pos, max) ==
    IF max = 0 \/ pos > Len(s) \/ ~IsDigit(s[pos]) THEN 0
    ELSE 1 + CountDigits(s, pos + 1, max - 1)

ScanStart == [err |-> "none", pos |-> 1, val |-> <<>>]

\* scan::number(s, min, max): between min and max digits, as many as there are
ScanNumber(s, st, min, max) ==
    IF st.err # "none" THEN st
    ELSE LET k == CountDigits(s, st.pos, max)
         IN  IF Len(s) - st.pos + 1 < min THEN [st EXCEPT !.err = "TOO_SHORT"]
             ELSE IF k < min THEN [st EXCEPT !.err = "INVALID"]
             ELSE [st EXCEPT !.pos = @ + k,
                             !.val = Append(@, NatOf(SubSeq(s, st.pos, st.pos + k - 1)))]

\* %Y: an explicit sign lifts the width of four
ScanYear(s, st) ==
    IF st.err # "none" THEN st
    ELSE IF st.pos <= Len(s) /\ s[st.pos] = "-"
         THEN LET r == ScanNumber(s, [st EXCEPT !.pos = @ + 1], 1, Len(s))
              IN  IF r.err # "none" THEN r
                  ELSE [r EXCEPT !.val = <<0 - r.val[1]>>]
    ELSE IF st.pos <= Len(s) /\ s[st.pos] = "+"
         THEN ScanNumber(s, [st EXCEPT !.pos = @ + 1], 1, Len(s))
    ELSE ScanNumber(s, st, 1, 4)

\* a literal character of the format
ScanLiteral(s, st, ch) ==
    IF st.err # "none" THEN st
    ELSE IF st.pos > Len(s) THEN [st EXCEPT !.err = "TOO_SHORT"]
    ELSE IF s[st.pos] # ch THEN [st EXCEPT !.err = "INVALID"]
    ELSE [st EXCEPT !.pos = @ + 1]

\* scan::colon_or_space: skips a run of ':' and blanks
RECURSIVE SkipColons(_, _)
SkipColons(s, pos) ==
    IF pos <= Len(s) /\ s[pos] \in {":", " "} THEN SkipColons(s, pos + 1) ELSE pos

\* %z, scan::timezone_offset without allow_missing_minutes: sign, two hour
\* digits, optional colon, two minute digits.  The offset read is not kept:
\* NaiveDateTime::parse_from_str ignores it.
ScanTimezoneOffset(s, st) ==
    IF st.err # "none" THEN st
    ELSE IF st.pos > Len(s) THEN [st EXCEPT !.err = "TOO_SHORT"]
    ELSE IF s[st.pos] \notin {"+", "-"} THEN [st EXCEPT !.err = "INVALID"]
    ELSE LET h == st.pos + 1
         IN  IF h + 1 > Len(s) THEN [st EXCEPT !.err = "TOO_SHORT"]
             ELSE IF ~(IsDigit(s[h]) /\ IsDigit(s[h + 1])) THEN [st EXCEPT !.err = "INVALID"]
             ELSE LET m == SkipColons(s, h + 2)
                  IN  IF m + 1 > Len(s) THEN [st EXCEPT !.err = "TOO_SHORT"]
                      ELSE IF ~(IsDigit(s[m]) /\ IsDigit(s[m + 1]))
                           THEN [st EXCEPT !.err = "INVALID"]
                      ELSE IF DigitVal(s[m]) > 5 THEN [st EXCEPT !.err = "OUT_OF_RANGE"]
                      ELSE [st EXCEPT !.pos = m + 2]

\* the end of NaiveDateTime::parse_from_str, with the scan state z after the
\* last item: nothing may be left over, and the fields must be a real date
\* and time of day.  A seconds field of 60 (a leap second) is not among the
\* inputs drawn below.
parse_finish(s, z) ==
    IF z.err # "none" THEN [kind |-> "Err", msg |-> z.err]
    ELSE IF z.pos <= Len(s) THEN [kind |-> "Err", msg |-> "TOO_LONG"]
    ELSE IF \/ ~from_ymd_opt(z.val[1], z.val[2], z.val[3]).some
            \/ z.val[4] > 23 \/ z.val[5] > 59 \/ z.val[6] > 59
         THEN [kind |-> "Err", msg |-> "OUT_OF_RANGE"]
    ELSE Ok(NaiveDateTime(z.val[1], z.val[2], z.val[3], z.val[4], z.val[5], z.val[6]))

\* the date items %Y-%m-%d of FORMAT
ScanDate(s) ==
    ScanNumber(s, ScanLiteral(s, ScanNumber(s, ScanLiteral(s, ScanYear(s, ScanStart),
               "-"), 1, 2), "-"), 1, 2)

\* the time items T%H:%M:%S of FORMAT, after the scan state st
ScanTime(s, st) ==
    ScanNumber(s, ScanLiteral(s, ScanNumber(s, ScanLiteral(s, ScanNumber(s,
               ScanLiteral(s, st, "T"), 1, 2), ":"), 1, 2), ":"), 1, 2)

\* NaiveDateTime::parse_from_str(s, FORMAT): the items in order
parse_from_str(s) == parse_finish(s, ScanTimezoneOffset(s, ScanTime(s, ScanDate(s))))

(***************************************************************************)
(* std: str::find, str::get, str::parse::<i32>                             *)
(***************************************************************************)
\* s.find(ch): the 0-based index of the first ch, or None
find(s, ch) ==
    IF \E i \in 1..Len(s) : s[i] = ch
    THEN [some |-> TRUE, index |-> (CHOOSE i \in 1..Len(s) :
                                      s[i] = ch /\ \A j \in 1..(i - 1) : s[j] # ch) - 1]
    ELSE [some |-> FALSE]

\* s.get(from..to), 0-based and half-open: None when the range leaves s
get(s, from, to) ==
    IF from <= to /\ to <= Len(s)
    THEN [some |-> TRUE, str |-> SubSeq(s, from + 1, to)]
    ELSE [some |-> FALSE]

\* str::parse::<i32>(): an optional sign, then one or more digits
parse_i32(t) ==
    LET signed == Len(t) > 0 /\ t[1] \in {"+", "-"}
        ds     == IF signed THEN Tail(t) ELSE t
    IN  IF Len(ds) = 0 \/ \E i \in 1..Len(ds) : ~IsDigit(ds[i])
        THEN [kind |-> "Err"]
        ELSE Ok(IF signed /\ t[1] = "-" THEN 0 - NatOf(ds) ELSE NatOf(ds))

(***************************************************************************)
(* local_time_deserializer::deserialize                                    *)
(***************************************************************************)
Custom(msg) == [kind |-> "Err", error |-> "Custom", msg |-> msg]

\* The steps of deserialize, each handed what the lines before it computed.

\* variant: the offset is attached but never subtracted
deserialize_result_no_correction(tz_offset, dt, tz) ==
    IF ~tz.some THEN Panic
    ELSE Ok(from_naive_utc_and_offset(dt, tz))

\* lines 20-24: east_opt(..).unwrap(), then the instant moved back by the offset
deserialize_result(tz_offset, dt, tz) ==
    IF ~tz.some THEN Panic
    ELSE Ok(SubHours(from_naive_utc_and_offset(dt, tz), tz_offset))

\* lines 18-20: a parse error of chrono is returned as the decode error
deserialize_parsed(tz_offset, dt) ==
    IF dt.kind # "Ok" THEN Custom(dt.msg)
    ELSE deserialize_result(tz_offset, dt.value, east_opt(tz_offset * 3600))

\* line 16, .parse().unwrap()
deserialize_offset(s, parsed) ==
    IF parsed.kind # "Ok" THEN Panic
    ELSE deserialize_parsed(parsed.value, parse_from_str(s))

\* line 16, s.get(..).unwrap()
deserialize_digits(s, digits) ==
    IF ~digits.some THEN Panic
    ELSE deserialize_offset(s, parse_i32(digits.str))

\* line 15, s.find('+').unwrap() + 1
deserialize_found(s, plus) ==
    IF ~plus.some THEN Panic
    ELSE deserialize_digits(s, get(s, plus.index + 1, plus.index + 1 + 2))

deserialize(s) == deserialize_found(s, find(s, "+"))

(***************************************************************************)
(* HourlyPrice (models/hourly_price.rs) and the decoding of a response     *)
(***************************************************************************)
\* an f64: NaN, or a number (the prices of the model are whole numbers)
NaN == [nan |-> TRUE]

F64(v) == [nan |-> FALSE, v |-> v]

\* f64::partial_cmp: None as soon as one side is NaN
f64_partial_cmp(x, y) ==
    IF x.nan \/ y.nan THEN "None"
    ELSE IF x.v < y.v THEN "Less"
    ELSE IF x.v > y.v THEN "Greater"
    ELSE "Equal"

\* variant: the ordering #[derive(PartialOrd)] would give, field after field
partial_cmp_lexicographic(self, other) ==
    LET c == f64_partial_cmp(self.nok_per_kwh, other.nok_per_kwh)
    IN  IF c = "Equal" THEN f64_partial_cmp(self.eur_per_kwh, other.eur_per_kwh) ELSE c

\* impl PartialOrd for HourlyPrice
partial_cmp(self, other) == f64_partial_cmp(self.nok_per_kwh, other.nok_per_kwh)

\* #[derive(Deserialize)] for HourlyPrice: the three numbers as they are, the
\* two timestamps through local_time_deserializer, time_start first.  The
\* first timestamp that does not decode ends the record; ts and te are what
\* the deserializer makes of time_start and time_end.
HourlyPrice_fields(obj, ts, te) ==
    IF ts.kind # "Ok" THEN ts
    ELSE IF te.kind # "Ok" THEN te
    ELSE Ok([nok_per_kwh |-> F64(obj.NOK_per_kWh),
             eur_per_kwh |-> F64(obj.EUR_per_kWh),
             exr         |-> F64(obj.EXR),
             time_start  |-> ts.value,
             time_end    |-> te.value])

HourlyPrice_deserialize(obj) ==
    HourlyPrice_fields(obj, deserialize(obj.time_start), deserialize(obj.time_end))

\* the elements in order, stopping at the first that fails, whose failure is
\* the outcome; outs[i] is what element i decodes to
Vec_collect(outs) ==
    IF \E i \in DOMAIN outs : outs[i].kind # "Ok"
    THEN outs[CHOOSE i \in DOMAIN outs :
                 /\ outs[i].kind # "Ok"
                 /\ \A j \in DOMAIN outs : outs[j].kind # "Ok" => i <= j]
    ELSE Ok([i \in DOMAIN outs |-> outs[i].value])

\* Deserialize for Vec<HourlyPrice>
Vec_deserialize(objs) ==
    Vec_collect([i \in 1..Len(objs) |-> HourlyPrice_deserialize(objs[i])])

\* a response body: a JSON array of price objects, or bytes that are not one
NotJson == [json |-> FALSE]

JsonArray(objs) == [json |-> TRUE, array |-> objs]

\* a decode error of serde becomes a reqwest::Error, a panic of the
\* deserializer unwinds through json()
json_result(r) == IF r.kind = "Err" THEN ReqwestError("decode") ELSE r

\* response.json::<Vec<HourlyPrice>>()
json(body) ==
    IF ~body.json THEN ReqwestError("decode")
    ELSE json_result(Vec_deserialize(body.array))

\* StatusCode::is_client_error
is_client_error(status) == status >= 400 /\ status < 500

(***************************************************************************)
(* Strompris::get_prices, async (lib.rs)                                   *)
(***************************************************************************)
base_url == "https://www.hvakosterstrommen.no/api/v1/prices/"

\* Url::join of a relative path onto a base that ends in '/'
Url_join(base, path) == [base |-> base, path |-> path]

\* variant: only the years are compared
date_after_min_date_year_only(given_date) == given_date.year >= MIN_DATE.year

date_after_min_date(given_date) ==
    LET given_datetime == from_ymd_opt(given_date.year, given_date.month, given_date.day)
    IN  DateGe(given_datetime, MIN_DATE)

region_token(r) ==
    CASE r = "NO1" -> <<"N", "O", "1">>
      [] r = "NO2" -> <<"N", "O", "2">>
      [] r = "NO3" -> <<"N", "O", "3">>
      [] r = "NO4" -> <<"N", "O", "4">>
      [] r = "NO5" -> <<"N", "O", "5">>

\* variant: the day written with {} instead of {:02}
endpoint_unpadded_day(d, r) ==
    FmtDisplay(d.year) \o <<"/">> \o FmtPad2(d.month) \o <<"-">> \o FmtDisplay(d.day)
        \o <<"_">> \o region_token(r) \o <<".", "j", "s", "o", "n">>

\* format!("{}/{:02}-{:02}_{}.json", year, month, day, price_region)
endpoint(d, r) ==
    FmtDisplay(d.year) \o <<"/">> \o FmtPad2(d.month) \o <<"-">> \o FmtPad2(d.day)
        \o <<"_">> \o region_token(r) \o <<".", "j", "s", "o", "n">>

\* variant: only 404 is taken for "no prices"
on_response_only_404(srv) ==
    IF srv.fails THEN [result |-> ReqwestError("send"), decoded |-> FALSE]
    ELSE IF srv.status = 404
         THEN [result |-> PricesUnavailable, decoded |-> FALSE]
    ELSE [result |-> json(srv.body), decoded |-> TRUE]

\* lines 117-122: what the call makes of the transport's answer
on_response(srv) ==
    IF srv.fails THEN [result |-> ReqwestError("send"), decoded |-> FALSE]
    ELSE IF is_client_error(srv.status)
         THEN [result |-> PricesUnavailable, decoded |-> FALSE]
    ELSE [result |-> json(srv.body), decoded |-> TRUE]

(***************************************************************************)
(* blocking::Strompris::get_prices (blocking/strompris.rs)                 *)
(***************************************************************************)
\* variant: the minimum date itself is turned away
blocking_date_after_min_date_strict(given_date) ==
    LET given_datetime == from_ymd_opt(given_date.year, given_date.month, given_date.day)
    IN  DateGe(given_datetime, MIN_DATE) /\ given_datetime # MIN_DATE

blocking_date_after_min_date(given_date) ==
    LET given_datetime == from_ymd_opt(given_date.year, given_date.month, given_date.day)
    IN  DateGe(given_datetime, MIN_DATE)

blocking_region_token(r) ==
    CASE r = "NO1" -> <<"N", "O", "1">>
      [] r = "NO2" -> <<"N", "O", "2">>
      [] r = "NO3" -> <<"N", "O", "3">>
      [] r = "NO4" -> <<"N", "O", "4">>
      [] r = "NO5" -> <<"N", "O", "5">>

blocking_endpoint(d, r) ==
    FmtDisplay(d.year) \o <<"/">> \o FmtPad2(d.month) \o <<"-">> \o FmtPad2(d.day)
        \o <<"_">> \o blocking_region_token(r) \o <<".", "j", "s", "o", "n">>

\* lines 71-76
blocking_on_response(srv) ==
    IF srv.fails THEN [result |-> ReqwestError("send"), decoded |-> FALSE]
    ELSE IF is_client_error(srv.status)
         THEN [result |-> PricesUnavailable, decoded |-> FALSE]
    ELSE [result |-> json(srv.body), decoded |-> TRUE]

(***************************************************************************)
(* Inputs of the calls                                                     *)
(***************************************************************************)
Modes == {"async", "blocking"}

Dates == {Ymd(2020, 12, 31), Ymd(2021, 11, 30), Ymd(2021, 12, 1), Ymd(2022, 1, 1),
          Ymd(2024, 1, 31), Ymd(2999, 11, 30)}

D_2024_07_14 == <<"2", "0", "2", "4", "-", "0", "7", "-", "1", "4">>
D_2024_07_15 == <<"2", "0", "2", "4", "-", "0", "7", "-", "1", "5">>
T_00_00_00 == <<"0", "0", ":", "0", "0", ":", "0", "0">>
T_01_00_00 == <<"0", "1", ":", "0", "0", ":", "0", "0">>
T_23_00_00 == <<"2", "3", ":", "0", "0", ":", "0", "0">>
Plus_02_00 == <<"+", "0", "2", ":", "0", "0">>

Stamp(d, t, z) == d \o <<"T">> \o t \o z

\* the price objects the stub server puts in its arrays: two that decode, one
\* whose time_end lacks the offset minutes, one whose time_start lacks the sign
JsonRecords ==
    { [NOK_per_kWh |-> 3, EUR_per_kWh |-> 1, EXR |-> 11,
       time_start |-> Stamp(D_2024_07_14, T_00_00_00, Plus_02_00),
       time_end   |-> Stamp(D_2024_07_14, T_01_00_00, Plus_02_00)],
      [NOK_per_kWh |-> 2, EUR_per_kWh |-> 1, EXR |-> 11,
       time_start |-> Stamp(D_2024_07_14, T_23_00_00, Plus_02_00),
       time_end   |-> Stamp(D_2024_07_15, T_00_00_00, Plus_02_00)],
      [NOK_per_kWh |-> 4, EUR_per_kWh |-> 1, EXR |-> 11,
       time_start |-> Stamp(D_2024_07_14, T_00_00_00, Plus_02_00),
       time_end   |-> Stamp(D_2024_07_14, T_01_00_00, <<"+", "0", "2">>)],
      [NOK_per_kWh |-> 5, EUR_per_kWh |-> 1, EXR |-> 11,
       time_start |-> Stamp(D_2024_07_14, T_00_00_00, <<"0", "2">>),
       time_end   |-> Stamp(D_2024_07_14, T_01_00_00, Plus_02_00)] }

Bodies == {NotJson}
          \cup {JsonArray(objs) : objs \in UNION {[1..n -> JsonRecords] : n \in 0..MaxBody}}

Statuses == {200, 400, 404, 499, 500}

Servers == {[fails |-> TRUE]}
           \cup {[fails |-> FALSE, status |-> st, body |-> b] : st \in Statuses, b \in Bodies}

(***************************************************************************)
(* The two modes of one get_prices call against the same stub server       *)
(***************************************************************************)
NoResult == [kind |-> "none"]

InitCall ==
    /\ date \in Dates
    /\ price_region \in PriceRegion
    /\ server \in Servers
    /\ pc = [m \in Modes |-> "ready"]
    /\ sent = [m \in Modes |-> <<>>]
    /\ decoded = [m \in Modes |-> FALSE]
    /\ result = [m \in Modes |-> NoResult]

\* lib.rs 99-117: validate, build the url, hand the GET to the transport
AsyncSend ==
    /\ pc["async"] = "ready"
    /\ IF ~date_after_min_date(date)
       THEN /\ result' = [result EXCEPT !["async"] = DateTooEarly]
            /\ pc' = [pc EXCEPT !["async"] = "done"]
            /\ sent' = sent
       ELSE /\ sent' = [sent EXCEPT !["async"] =
                           Append(@, Url_join(base_url, endpoint(date, price_region)))]
            /\ pc' = [pc EXCEPT !["async"] = "awaiting"]
            /\ result' = result
    /\ UNCHANGED <<date, price_region, server, decoded, input, output, built, operands, cmp>>

\* lib.rs 117-122: the await resumes with the transport's answer
AsyncResume ==
    /\ pc["async"] = "awaiting"
    /\ result' = [result EXCEPT !["async"] = on_response(server).result]
    /\ decoded' = [decoded EXCEPT !["async"] = on_response(server).decoded]
    /\ pc' = [pc EXCEPT !["async"] = "done"]
    /\ UNCHANGED <<date, price_region, server, sent, input, output, built, operands, cmp>>

\* blocking/strompris.rs 54-71
BlockingSend ==
    /\ pc["blocking"] = "ready"
    /\ IF ~blocking_date_after_min_date(date)
       THEN /\ result' = [result EXCEPT !["blocking"] = DateTooEarly]
            /\ pc' = [pc EXCEPT !["blocking"] = "done"]
            /\ sent' = sent
       ELSE /\ sent' = [sent EXCEPT !["blocking"] =
                           Append(@, Url_join(base_url, blocking_endpoint(date, price_region)))]
            /\ pc' = [pc EXCEPT !["blocking"] = "awaiting"]
            /\ result' = result
    /\ UNCHANGED <<date, price_region, server, decoded, input, output, built, operands, cmp>>

\* blocking/strompris.rs 71-76: send() returns
BlockingReturn ==
    /\ pc["blocking"] = "awaiting"
    /\ result' = [result EXCEPT !["blocking"] = blocking_on_response(server).result]
    /\ decoded' = [decoded EXCEPT !["blocking"] = blocking_on_response(server).decoded]
    /\ pc' = [pc EXCEPT !["blocking"] = "done"]
    /\ UNCHANGED <<date, price_region, server, sent, input, output, built, operands, cmp>>

Init ==
    /\ InitCall
    /\ input = <<>>
    /\ output = NoResult
    /\ built = <<>>
    /\ operands = <<>>
    /\ cmp = <<>>

Next == AsyncSend \/ AsyncResume \/ BlockingSend \/ BlockingReturn

Spec == Init /\ [][Next]_vars

(***************************************************************************)
(* The deserializer on its own: one string in, one outcome out             *)
(***************************************************************************)
\* no get_prices call in progress
NoCall ==
    /\ date = Ymd(2024, 1, 31)
    /\ price_region = "NO1"
    /\ server = [fails |-> TRUE]
    /\ pc = [m \in Modes |-> "done"]
    /\ sent = [m \in Modes |-> <<>>]
    /\ decoded = [m \in Modes |-> FALSE]
    /\ result = [m \in Modes |-> NoResult]

\* wall-clock texts: five as upstream writes them, one with a one-digit
\* month, one with a blank for the 'T', one with month 13
WallTexts ==
    { <<"2", "0", "2", "4", "-", "0", "7", "-", "1", "4", "T", "0", "0", ":", "0", "0", ":", "0", "0">>,
      <<"2", "0", "2", "4", "-", "0", "7", "-", "1", "4", "T", "2", "3", ":", "0", "0", ":", "0", "0">>,
      <<"2", "0", "2", "4", "-", "0", "1", "-", "0", "1", "T", "0", "0", ":", "3", "0", ":", "1", "5">>,
      <<"2", "0", "2", "4", "-", "0", "3", "-", "0", "1", "T", "0", "1", ":", "0", "0", ":", "0", "0">>,
      <<"2", "0", "2", "1", "-", "1", "2", "-", "3", "1", "T", "2", "2", ":", "5", "9", ":", "5", "9">>,
      <<"2", "0", "2", "4", "-", "7", "-", "1", "4", "T", "0", "0", ":", "0", "0", ":", "0", "0">>,
      <<"2", "0", "2", "4", "-", "0", "7", "-", "1", "4", " ", "0", "0", ":", "0", "0", ":", "0", "0">>,
      <<"2", "0", "2", "4", "-", "1", "3", "-", "1", "4", "T", "0", "0", ":", "0", "0", ":", "0", "0">> }

\* what follows the wall clock: with and without minutes, with and without
\* colon, both signs, no sign, nothing, too few digits, letters, hours and
\* minutes out of range, trailing text, a sign where a digit belongs
OffsetTexts ==
    { <<"+", "0", "2">>,
      <<"+", "0", "2", ":", "0", "0">>,
      <<"+", "0", "2", "0", "0">>,
      <<"+", "0", "1", ":", "0", "0">>,
      <<"+", "0", "0", ":", "0", "0">>,
      <<"+", "2", "3", ":", "0", "0">>,
      <<"+", "2", "4", ":", "0", "0">>,
      <<"+", "0", "5", ":", "3", "0">>,
      <<"-", "0", "1", ":", "0", "0">>,
      <<"-", "0", "1">>,
      <<"0", "2">>,
      <<>>,
      <<"+", "2">>,
      <<"+">>,
      <<"+", "a", "b">>,
      <<"+", "a", "2", ":", "0", "0">>,
      <<"+", "0", "2", ":", "6", "0">>,
      <<"+", "0", "2", ":", "0">>,
      <<"+", "0", "2", ":", "0", "0", "Z">>,
      <<"+", "-", "1", ":", "0", "0">> }

TimestampTexts == {w \o z : w \in WallTexts, z \in OffsetTexts}

InitDecode ==
    /\ NoCall
    /\ input \in TimestampTexts
    /\ output = NoResult
    /\ built = <<>>
    /\ operands = <<>>
    /\ cmp = <<>>

Deserialize ==
    /\ output = NoResult
    /\ output' = deserialize(input)
    /\ UNCHANGED <<date, price_region, server, pc, sent, decoded, result,
                   input, built, operands, cmp>>

NextDecode == Deserialize

SpecDecode == InitDecode /\ [][NextDecode]_vars

(***************************************************************************)
(* The request builder on its own: endpoints built for accepted dates      *)
(***************************************************************************)
BuilderDates == {d \in Dates : date_after_min_date(d)} \cup {Ymd(2024, 11, 1), Ymd(2024, 1, 11)}

InitBuilder ==
    /\ NoCall
    /\ input = <<>>
    /\ output = NoResult
    /\ built = <<>>
    /\ operands = <<>>
    /\ cmp = <<>>

\* lib.rs 99-114
BuildAsync(d, r) ==
    /\ Len(built) < MaxBuilt
    /\ date_after_min_date(d)
    /\ built' = Append(built, [date |-> d, price_region |-> r, path |-> endpoint(d, r)])
    /\ UNCHANGED <<date, price_region, server, pc, sent, decoded, result,
                   input, output, operands, cmp>>

\* blocking/strompris.rs 54-69
BuildBlocking(d, r) ==
    /\ Len(built) < MaxBuilt
    /\ blocking_date_after_min_date(d)
    /\ built' = Append(built, [date |-> d, price_region |-> r, path |-> blocking_endpoint(d, r)])
    /\ UNCHANGED <<date, price_region, server, pc, sent, decoded, result,
                   input, output, operands, cmp>>

NextBuilder ==
    \/ \E d \in BuilderDates, r \in PriceRegion : BuildAsync(d, r)
    \/ \E d \in BuilderDates, r \in PriceRegion : BuildBlocking(d, r)

SpecBuilder == InitBuilder /\ [][NextBuilder]_vars

(***************************************************************************)
(* The ordering of HourlyPrice on its own: three values compared pairwise  *)
(***************************************************************************)
Instants ==
    { [utc |-> NaiveDateTime(2024, 7, 13, 22, 0, 0), offset |-> 7200],
      [utc |-> NaiveDateTime(2024, 7, 14, 21, 0, 0), offset |-> 7200] }

HourlyPrices ==
    [nok_per_kwh : {NaN, F64(1), F64(2), F64(3)},
     eur_per_kwh : {F64(1), F64(2)},
     exr         : {F64(11)},
     time_start  : Instants,
     time_end    : {[utc |-> NaiveDateTime(2024, 7, 14, 22, 0, 0), offset |-> 7200]}]

InitOrder ==
    /\ NoCall
    /\ input = <<>>
    /\ output = NoResult
    /\ built = <<>>
    /\ operands \in [1..3 -> HourlyPrices]
    /\ cmp = <<>>

Compare ==
    /\ cmp = <<>>
    /\ cmp' = [i \in 1..3 |-> [j \in 1..3 |-> partial_cmp(operands[i], operands[j])]]
    /\ UNCHANGED <<date, price_region, server, pc, sent, decoded, result,
                   input, output, built, operands>>

NextOrder == Compare

SpecOrder == InitOrder /\ [][NextOrder]_vars

(***************************************************************************)
(* Vocabulary of the properties                                            *)
(***************************************************************************)
MinimumDate == Ymd(2021, 12, 1)

\* texts the properties name
TEXT_NO1 == <<"N", "O", "1">>
TEXT_NO2 == <<"N", "O", "2">>
TEXT_NO3 == <<"N", "O", "3">>
TEXT_NO4 == <<"N", "O", "4">>
TEXT_NO5 == <<"N", "O", "5">>
TEXT_JSON == <<".", "j", "s", "o", "n">>
TEXT_EXAMPLE_PATH == <<"2", "0", "2", "4", "/", "0", "1", "-", "3", "1", "_", "N", "O", "1", ".", "j", "s", "o", "n">>
TEXT_MIDNIGHT == <<"2", "0", "2", "4", "-", "0", "7", "-", "1", "4", "T", "0", "0", ":", "0", "0", ":", "0", "0", "+", "0", "2", ":", "0", "0">>
TEXT_LATE == <<"2", "0", "2", "4", "-", "0", "7", "-", "1", "4", "T", "2", "3", ":", "0", "0", ":", "0", "0", "+", "0", "2", ":", "0", "0">>

\* x is a calendar date strictly before y
Before(x, y) ==
    \/ x.year < y.year
    \/ x.year = y.year /\ x.month < y.month
    \/ x.year = y.year /\ x.month = y.month /\ x.day < y.day

AllDone == \A m \in Modes : pc[m] = "done"

\* the server answered (the transport did not fail) with this class of status
Answered4xx == ~server.fails /\ server.status \in 400..499

AnsweredOther == ~server.fails /\ server.status \notin 200..299 /\ server.status \notin 400..499

\* the number read at positions i..j of a text
Num(s, i, j) == NatOf(SubSeq(s, i, j))

AllDigits(s, ps) == \A i \in ps : IsDigit(s[i])

\* s begins with a wall clock written YYYY-MM-DDTHH:MM:SS
WallOk(s) ==
    /\ Len(s) >= 19
    /\ AllDigits(s, {1, 2, 3, 4, 6, 7, 9, 10, 12, 13, 15, 16, 18, 19})
    /\ s[5] = "-" /\ s[8] = "-" /\ s[11] = "T" /\ s[14] = ":" /\ s[17] = ":"

WallOf(s) == NaiveDateTime(Num(s, 1, 4), Num(s, 6, 7), Num(s, 9, 10),
                           Num(s, 12, 13), Num(s, 15, 16), Num(s, 18, 19))

\* the wall clock of s names a real date and time of day
WallValid(s) ==
    LET w == WallOf(s)
    IN  /\ w.month \in 1..12 /\ w.day \in 1..DaysInMonth(w.year, w.month)
        /\ w.hour \in 0..23 /\ w.minute \in 0..59 /\ w.second \in 0..59

\* s is written YYYY-MM-DDTHH:MM:SS, the sign, HH
FormHH(s, sign) ==
    WallOk(s) /\ Len(s) = 22 /\ s[20] = sign /\ AllDigits(s, {21, 22})

\* s is written YYYY-MM-DDTHH:MM:SS, the sign, HH:MM
FormHHMM(s, sign) ==
    /\ WallOk(s) /\ Len(s) = 25 /\ s[20] = sign /\ AllDigits(s, {21, 22, 24, 25})
    /\ s[23] = ":"

OffsetHours(s) == Num(s, 21, 22)

\* days since 1970-01-01 of a civil date, counted without stepping day by day
DaysFromCivil(y, m, d) ==
    LET yy  == IF m <= 2 THEN y - 1 ELSE y
        era == yy \div 400
        yoe == yy - era * 400
        mp  == IF m > 2 THEN m - 3 ELSE m + 9
        doy == (153 * mp + 2) \div 5 + d - 1
        doe == yoe * 365 + yoe \div 4 - yoe \div 100 + doy
    IN  era * 146097 + doe - 719468

\* whole hours since the epoch of a date and time
HoursOf(dt) == DaysFromCivil(dt.year, dt.month, dt.day) * 24 + dt.hour

\* t is the instant k hours before (k < 0: after) the wall clock w, tagged
\* with the offset of tag hours
InstantIs(t, w, k, tag) ==
    /\ HoursOf(t.utc) = HoursOf(w) - k
    /\ t.utc.minute = w.minute /\ t.utc.second = w.second
    /\ t.offset = tag * 3600

(***************************************************************************)
(* Properties of get_prices (under Spec)                                   *)
(***************************************************************************)
\* C1: for a date strictly before 2021-12-01 and any region, get_prices in
\* either mode returns the DateTooEarly error, and at no point of the call is
\* a request handed to the transport (nor a response awaited or decoded).
C1_EarlyDateNoRequest ==
    Before(date, MinimumDate) =>
        \A m \in Modes :
            /\ sent[m] = <<>>
            /\ pc[m] # "awaiting"
            /\ ~decoded[m]
            /\ pc[m] = "done" => result[m] = DateTooEarly

C1_Witness == Before(date, MinimumDate) /\ AllDone /\ date = Ymd(2021, 11, 30)

\* C5: for a date on or after the minimum date, when the server answers the
\* GET with a 4xx status, get_prices returns PricesUnavailable and the
\* response body is never given to the decoder.
C5_ClientErrorUnavailable ==
    \A m \in Modes :
        (pc[m] = "done" /\ ~Before(date, MinimumDate) /\ Answered4xx) =>
            result[m] = PricesUnavailable /\ ~decoded[m]

C5_Witness ==
    /\ AllDone /\ ~Before(date, MinimumDate) /\ Answered4xx /\ server.status = 499
    /\ server.body.json /\ Len(server.body.array) > 0

\* C6 as the spec states it: when the server answers with a status that is
\* neither 2xx nor 4xx, get_prices returns a transport error (a ReqwestError),
\* never a list of prices.
C6_OtherStatusIsTransportError ==
    \A m \in Modes :
        (pc[m] = "done" /\ ~Before(date, MinimumDate) /\ AnsweredOther) =>
            result[m].kind = "Err" /\ result[m].error = "ReqwestError"

\* the local-time decoder does not produce a timestamp for this text
DecoderFails(s) == deserialize(s).kind # "Ok"

RecordFails(obj) == DecoderFails(obj.time_start) \/ DecoderFails(obj.time_end)

\* price p is object obj decoded
DecodedFrom(p, obj) ==
    /\ p.nok_per_kwh = F64(obj.NOK_per_kWh)
    /\ p.eur_per_kwh = F64(obj.EUR_per_kWh)
    /\ p.exr = F64(obj.EXR)
    /\ Ok(p.time_start) = deserialize(obj.time_start)
    /\ Ok(p.time_end) = deserialize(obj.time_end)

\* C8 as the spec states it: once the body (a JSON array) was given to the
\* decoder, if the local-time decoder fails on a timestamp of any record the
\* call returns a decode error and no prices; otherwise it returns one decoded
\* price per element of the array, in order.
C8_AllOrNothing ==
    \A m \in Modes :
        (pc[m] = "done" /\ decoded[m] /\ server.body.json) =>
            LET objs == server.body.array
            IN  IF \E i \in 1..Len(objs) : RecordFails(objs[i])
                THEN result[m] = ReqwestError("decode")
                ELSE /\ result[m].kind = "Ok"
                     /\ Len(result[m].value) = Len(objs)
                     /\ \A i \in 1..Len(objs) : DecodedFrom(result[m].value[i], objs[i])

\* C9: for the same date, region and server behaviour, the blocking and the
\* async call hand the same requests to the transport and, once both have
\* returned, have the same outcome.
C9_ModesAgree ==
    AllDone => /\ result["async"] = result["blocking"]
               /\ sent["async"] = sent["blocking"]
               /\ decoded["async"] = decoded["blocking"]

C9_Witness ==
    /\ AllDone /\ date = MinimumDate
    /\ result["blocking"].kind = "Ok" /\ Len(result["blocking"].value) = 2
    /\ Len(sent["async"]) = 1

(***************************************************************************)
(* Properties of the request builder (under SpecBuilder)                   *)
(***************************************************************************)
RegionText == [r \in PriceRegion |->
                  IF r = "NO1" THEN TEXT_NO1 ELSE IF r = "NO2" THEN TEXT_NO2
                  ELSE IF r = "NO3" THEN TEXT_NO3 ELSE IF r = "NO4" THEN TEXT_NO4
                  ELSE TEXT_NO5]

\* the path of e reads, from the end: ".json", the region token, '_', a
\* two-digit day, '-', a two-digit month, '/', and before that the year in
\* decimal without padding
PathExact(e) ==
    LET p == e.path
        n == Len(p)
    IN  /\ n >= 16
        /\ SubSeq(p, n - 4, n) = TEXT_JSON
        /\ SubSeq(p, n - 7, n - 5) = RegionText[e.price_region]
        /\ p[n - 8] = "_"
        /\ AllDigits(p, {n - 10, n - 9}) /\ Num(p, n - 10, n - 9) = e.date.day
        /\ p[n - 11] = "-"
        /\ AllDigits(p, {n - 13, n - 12}) /\ Num(p, n - 13, n - 12) = e.date.month
        /\ p[n - 14] = "/"
        /\ AllDigits(p, 1..(n - 15)) /\ Num(p, 1, n - 15) = e.date.year
        /\ n - 15 > 1 => p[1] # "0"

\* C7: every endpoint built for an accepted (date, region) has exactly the
\* form {year}/{MM}-{DD}_{REGION}.json; two endpoints are the same text only
\* for the same date and region; (2024-01-31, NO1) gives "2024/01-31_NO1.json".
C7_PathFormat ==
    /\ \A i \in 1..Len(built) : PathExact(built[i])
    /\ \A i \in 1..Len(built) :
          (built[i].date = Ymd(2024, 1, 31) /\ built[i].price_region = "NO1")
              => built[i].path = TEXT_EXAMPLE_PATH
    /\ \A i, j \in 1..Len(built) :
          built[i].path = built[j].path => built[i] = built[j]

C7_Witness ==
    /\ Len(built) >= 2
    /\ built[1].date = Ymd(2024, 1, 31) /\ built[1].price_region = "NO1"
    /\ built[2].date = Ymd(2022, 1, 1) /\ built[2].price_region = "NO5"

(***************************************************************************)
(* Properties of the local-time deserializer (under SpecDecode)            *)
(***************************************************************************)
\* C2 as the spec states it: a text YYYY-MM-DDTHH:MM:SS+HH with a real wall
\* clock W and an offset of h hours decodes to the instant W - h hours tagged
\* with the offset +h.
C2_HourOnlyOffsetDecodes ==
    (output # NoResult /\ FormHH(input, "+") /\ WallValid(input)
        /\ OffsetHours(input) <= 23) =>
            /\ output.kind = "Ok"
            /\ InstantIs(output.value, WallOf(input), OffsetHours(input), OffsetHours(input))

\* C2, amended: a text YYYY-MM-DDTHH:MM:SS+HH:MM with a real wall clock W, HH
\* in 00..23 and MM in 00..59 decodes to the instant W - HH hours tagged with
\* the offset +HH hours (the minutes of the offset are not used);
\* "2024-07-14T00:00:00+02:00" gives 2024-07-13T22:00:00 UTC with offset +2 and
\* "2024-07-14T23:00:00+02:00" gives 2024-07-14T21:00:00 UTC with offset +2.
C2_OffsetWithMinutesDecodes ==
    /\ (output # NoResult /\ FormHHMM(input, "+") /\ WallValid(input)
          /\ OffsetHours(input) <= 23 /\ Num(input, 24, 25) <= 59) =>
              /\ output.kind = "Ok"
              /\ InstantIs(output.value, WallOf(input), OffsetHours(input), OffsetHours(input))
    /\ (output # NoResult /\ input = TEXT_MIDNIGHT) =>
          output = Ok([utc |-> NaiveDateTime(2024, 7, 13, 22, 0, 0), offset |-> 2 * 3600])
    /\ (output # NoResult /\ input = TEXT_LATE) =>
          output = Ok([utc |-> NaiveDateTime(2024, 7, 14, 21, 0, 0), offset |-> 2 * 3600])

C2_Witness == input = TEXT_MIDNIGHT /\ output.kind = "Ok"

\* the four ways of being malformed the spec lists
SignMissing(s) == WallOk(s) /\ \A i \in 20..Len(s) : s[i] \notin {"+", "-"}

OffsetNotNumeric(s) ==
    WallOk(s) /\ Len(s) >= 22 /\ s[20] \in {"+", "-"} /\ ~AllDigits(s, {21, 22})

OffsetTooShort(s) == WallOk(s) /\ Len(s) \in 20..21 /\ s[20] \in {"+", "-"}

WrongFieldWidths(s) == ~WallOk(s)

\* C3 as the spec states it: a malformed text (no sign, offset digits that
\* are not digits, fewer than two offset digits, wrong field widths) decodes
\* to a decode error, never to a panic (nor to a timestamp).
C3_MalformedIsDecodeError ==
    (output # NoResult
        /\ (SignMissing(input) \/ OffsetNotNumeric(input) \/ OffsetTooShort(input)
              \/ WrongFieldWidths(input))) =>
            output.kind = "Err"

\* C4 as the spec states it: a text with a negative offset, -HH (or -HH:MM),
\* with a real wall clock W decodes to the instant W + HH hours tagged with
\* the offset -HH hours.
C4_NegativeOffsetDecodes ==
    (output # NoResult /\ (FormHH(input, "-") \/ FormHHMM(input, "-"))
        /\ WallValid(input) /\ OffsetHours(input) <= 23) =>
            /\ output.kind = "Ok"
            /\ InstantIs(output.value, WallOf(input), 0 - OffsetHours(input),
                         0 - OffsetHours(input))

(***************************************************************************)
(* Properties of the ordering (under SpecOrder)                            *)
(***************************************************************************)
\* the comparison of two numbers
NumericOrder(x, y) == IF x < y THEN "Less" ELSE IF x > y THEN "Greater" ELSE "Equal"

\* the operands whose local-currency price is a number
Comparable == {i \in 1..3 : ~operands[i].nok_per_kwh.nan}

\* C10: on HourlyPrice values whose nok_per_kwh is not NaN, partial_cmp is
\* the numeric comparison of nok_per_kwh alone, whatever the other fields
\* are, and so a total order: always defined, antisymmetric and transitive.
C10_OrderByNokAlone ==
    cmp # <<>> =>
        /\ \A i, j \in Comparable :
              cmp[i][j] = NumericOrder(operands[i].nok_per_kwh.v, operands[j].nok_per_kwh.v)
        /\ \A i, j \in Comparable :
              /\ cmp[i][j] \in {"Less", "Equal", "Greater"}
              /\ cmp[i][j] = "Less" <=> cmp[j][i] = "Greater"
              /\ cmp[i][j] = "Equal" <=> cmp[j][i] = "Equal"
        /\ \A i, j, k \in Comparable :
              (cmp[i][j] \in {"Less", "Equal"} /\ cmp[j][k] \in {"Less", "Equal"})
                  => cmp[i][k] \in {"Less", "Equal"}

C10_Witness ==
    /\ cmp # <<>>
    /\ Comparable = 1..3
    /\ operands[1].nok_per_kwh = operands[2].nok_per_kwh
    /\ operands[1].eur_per_kwh # operands[2].eur_per_kwh
    /\ operands[1].time_start # operands[2].time_start
    /\ cmp[1][2] = "Equal" /\ cmp[2][3] = "Less" /\ cmp[3][1] = "Greater"

====
